---- MODULE Spec2Model ----
(***************************************************************************)
(* Range-accrual fixed coupons (FX and CMS) and their pricers.             *)
(*                                                                         *)
(* Numbers.  A Real is a fraction [num, den]; den = 0 is the NaN that the  *)
(* floating-point division 0.0/0 yields, den = -1 the Null<Real>()         *)
(* sentinel.  Index fixings and triggers are integer ticks.  For the FX    *)
(* family a positive tick i stands for x0*exp(i*h), so ln(S/K) is exactly  *)
(* (S-K)*h and the order of ticks is the order of the values; a tick <= 0  *)
(* stands for a non-positive value.  Standard deviations are integers in   *)
(* units of 1e-4 (FX) and 1e-6 (CMS), so that minStd is 5 units in both.   *)
(* Probabilities are integer percent; Phi is the cumulative normal         *)
(* tabulated in half-sigma steps.                                          *)
(***************************************************************************)
EXTENDS Integers, Sequences, FiniteSets, TLC

MaxDate == 2

Dates == 1..MaxDate
Values == 1..3
Triggers == -1..3
Nominals == {2}
VolLevels == {0, 10}
Coupons == {1, 2}
Pricers == {1, 2}
NoPricer == 0
Families == {"FX", "CMS"}

VARIABLES
    family,              \* "FX" or "CMS": the coupon/pricer/index family in use
    fixings,             \* the index: date -> fixing, for the dates that have one
    vol,                 \* the volatility handle: {} empty, {v} a flat surface
    coupon,              \* coupon id -> its terms, or NoCoupon
    pricer_,             \* coupon id -> bound pricer, or NoPricer
    calculated_,         \* coupon id -> LazyObject::calculated_
    rangeAccrual_,       \* coupon id -> cached rangeAccrual_
    additionalResults_,  \* coupon id -> cached diagnostics map
    observers,           \* pricer id -> coupons registered with it
    pricerRangeAccrual_, \* pricer id -> rangeAccrual_
    pricerResults_,      \* pricer id -> additionalResults_
    ret                  \* outcome of the last call

vars == <<family, fixings, vol, coupon, pricer_, calculated_, rangeAccrual_,
          additionalResults_, observers, pricerRangeAccrual_, pricerResults_, ret>>

----------------------------------------------------------------------------
(* Reals *)

Real(n, d) == [num |-> n, den |-> d]
NullReal == Real(0, -1)
NaN == Real(0, 0)
IsNaN(r) == r.den = 0
Times(r, k) == Real(r.num * k, r.den)
\* a division by the days of the accrual period instead of the schedule's size
DivByAccrualDays(n, size) == Real(n, MaxDate)
\* inRange / observationsSchedule()->dates().size()
Div(n, size) == Real(n, size)

NoCoupon == [exists |-> FALSE]
NoResults == <<>>

\* every ascending sequence of dates: what a Schedule can hold
RECURSIVE SeqsOver(_)
SeqsOver(S) ==
    IF S = {} THEN {<<>>}
    ELSE LET m == CHOOSE x \in S : \A y \in S : y <= x
             rest == SeqsOver(S \ {m})
         IN  rest \cup {Append(s, m) : s \in rest}

Schedules == SeqsOver(Dates)

\* MakeSchedule().from(start).to(end).withFrequency(Daily): every date of the
\* accrual period
DailySchedule == [i \in 1..MaxDate |-> i]

----------------------------------------------------------------------------
(* Numerical primitives *)

minStd == 5

\* CumulativeNormalDistribution, in percent, at x = n/d, tabulated at the
\* half-sigma below x; d = 0 is the limit value (+/- infinity) or 0/0
PhiTable(z2) ==
    CASE z2 <= -6 -> 0
      [] z2 = -5 -> 1
      [] z2 = -4 -> 2
      [] z2 = -3 -> 7
      [] z2 = -2 -> 16
      [] z2 = -1 -> 31
      [] z2 = 0 -> 50
      [] z2 = 1 -> 69
      [] z2 = 2 -> 84
      [] z2 = 3 -> 93
      [] z2 = 4 -> 98
      [] z2 = 5 -> 99
      [] OTHER -> 100

Phi(n, d) ==
    IF d > 0 THEN Real(PhiTable((2 * n) \div d), 100)
    ELSE IF n > 0 THEN Real(100, 100)
    ELSE IF n < 0 THEN Real(0, 100)
    ELSE NaN

Minus(a, b) == IF IsNaN(a) \/ IsNaN(b) THEN NaN ELSE Real(a.num - b.num, 100)
\* an accumulation that assigns instead of adding
PlusOverwriting(a, b) == b
\* daysInRange += inRangeProbability
Plus(a, b) == IF IsNaN(a) \/ IsNaN(b) THEN NaN ELSE Real(a.num + b.num, 100)
DivReal(r, size) == IF IsNaN(r) THEN NaN ELSE Real(r.num, r.den * size)

RECURSIVE ISqrtFrom(_, _)
ISqrtFrom(n, r) == IF (r + 1) * (r + 1) > n THEN r ELSE ISqrtFrom(n, r + 1)
ISqrt(n) == ISqrtFrom(n, 0)

\* a BlackVolTermStructure / SwaptionVolatilityStructure whose volatility
\* changes linearly with the strike
SmileVol(referenceDate, level, skew) ==
    [referenceDate |-> referenceDate, level |-> level, skew |-> skew]

\* BlackConstantVol(referenceDate, calendar, volatility, dayCounter): a flat
\* surface
BlackConstantVol(referenceDate, level) == SmileVol(referenceDate, level, 0)

\* std::max(x, 0.0)
Max0(x) == IF x > 0 THEN x ELSE 0

\* the reference date of the surfaces of the small scenarios
ReferenceDate == 1

\* sqrt(max(blackVariance(d, K), 0)) past the surface's reference date,
\* the volatility at strike K times sqrt(days); 0 on a date that is not
\* after it
StdDev(surface, d, K) ==
    IF d > surface.referenceDate
    THEN Max0(surface.level + surface.skew * K) * ISqrt(d - surface.referenceDate)
    ELSE 0

----------------------------------------------------------------------------
(* The per-date in-range probability of the two pricers *)

\* FX: Black digital put spread; ln(S/K) = (S - K) * 10 units of 1e-4
FxD2Num(S, K, std) == (S - K) * 10 * 20000 - std * std
FxD2Den(std) == 20000 * std

FxInRangeProbability(S, lo, up, standardDevLow, standardDevUpp) ==
    IF standardDevLow < minStd
    THEN IF S >= lo /\ S <= up THEN Real(100, 100) ELSE Real(0, 100)
    ELSE LET putLower == Phi(-FxD2Num(S, lo, standardDevLow), FxD2Den(standardDevLow))
             putUpper == Phi(-FxD2Num(S, up, standardDevUpp), FxD2Den(standardDevUpp))
         IN  Minus(putUpper, putLower)

\* CMS: Bachelier digital puts, each boundary on its own; one rate tick (1bp)
\* is 100 units of 1e-6
CmsPut(S, K, std) ==
    IF std < minStd
    THEN IF S < K THEN Real(100, 100) ELSE Real(0, 100)
    ELSE Phi((K - S) * 100, std)

CmsInRangeProbability(S, lo, up, standardDevLow, standardDevUpp) ==
    Minus(CmsPut(S, up, standardDevUpp), CmsPut(S, lo, standardDevLow))

\* the standard deviations the option formulas divide by: the FX pricer
\* enters the formula for both boundaries when standardDevLow >= minStd, the
\* CMS pricer for each boundary whose own standard deviation is >= minStd
FxFormulaStdDevs(standardDevLow, standardDevUpp) ==
    IF standardDevLow < minStd THEN {} ELSE {standardDevLow, standardDevUpp}

CmsFormulaStdDevs(standardDevLow, standardDevUpp) ==
    (IF standardDevLow < minStd THEN {} ELSE {standardDevLow}) \cup
    (IF standardDevUpp < minStd THEN {} ELSE {standardDevUpp})

FormulaStdDevs(fam, sl, su) ==
    IF fam = "FX" THEN FxFormulaStdDevs(sl, su) ELSE CmsFormulaStdDevs(sl, su)

\* CMS replication.  Strikes of caplets and floorlets are in half ticks (half
\* a basis point), spread widths too; the default spread width is 1bp
SpreadWidth == 2

\* HaganPricer::capletRate(strike) and floorletRate(strike) for the CMS rate
\* S: intrinsic value plus a time value that fades away from the money, in
\* PriceUnit-th parts of a half tick
PriceUnit == 4
HaganTimeValue(S, K2) ==
    Max0(3 - (IF K2 > 2 * S THEN K2 - 2 * S ELSE 2 * S - K2))
CapletRate(S, K2) == PriceUnit * Max0(2 * S - K2) + HaganTimeValue(S, K2)
FloorletRate(S, K2) == PriceUnit * Max0(K2 - 2 * S) + HaganTimeValue(S, K2)

\* a put spread that takes the call side at the money too
PutSpreadCallAtTheMoney(swapRate, optionStrike, spreadWidth) ==
    IF optionStrike >= swapRate
    THEN LET calPlus == CapletRate(swapRate, 2 * optionStrike + spreadWidth \div 2)
             calMins == CapletRate(swapRate, 2 * optionStrike - spreadWidth \div 2)
         IN  [side |-> "call",
              value |-> Real(100 - (100 * (calMins - calPlus)) \div (PriceUnit * spreadWidth),
                             100)]
    ELSE LET putPlus == FloorletRate(swapRate, 2 * optionStrike + spreadWidth \div 2)
             putMins == FloorletRate(swapRate, 2 * optionStrike - spreadWidth \div 2)
         IN  [side |-> "put",
              value |-> Real((100 * (putPlus - putMins)) \div (PriceUnit * spreadWidth),
                             100)]

\* the digital put of cmsPutOption, in percent: a caplet spread when the
\* strike is above the swap rate, a floorlet spread otherwise
PutSpread(swapRate, optionStrike, spreadWidth) ==
    IF optionStrike > swapRate
    THEN LET calPlus == CapletRate(swapRate, 2 * optionStrike + spreadWidth \div 2)
             calMins == CapletRate(swapRate, 2 * optionStrike - spreadWidth \div 2)
         IN  [side |-> "call",
              value |-> Real(100 - (100 * (calMins - calPlus)) \div (PriceUnit * spreadWidth),
                             100)]
    ELSE LET putPlus == FloorletRate(swapRate, 2 * optionStrike + spreadWidth \div 2)
             putMins == FloorletRate(swapRate, 2 * optionStrike - spreadWidth \div 2)
         IN  [side |-> "put",
              value |-> Real((100 * (putPlus - putMins)) \div (PriceUnit * spreadWidth),
                             100)]

\* cmsPutOption(cmsIndex, exerciseDate, paymentDate, optionStrike, spreadWidth)
CmsPutOption(hagan, fx, exerciseDate, optionStrike, spreadWidth) ==
    IF ~hagan
    THEN [status |-> "error", msg |-> "haganPricer_ required.", side |-> "", value |-> NullReal]
    ELSE IF ~(spreadWidth > 0)
    THEN [status |-> "error", msg |-> "spreadWidth > 0.0 required.", side |-> "",
          value |-> NullReal]
    ELSE IF exerciseDate \notin DOMAIN fx
    THEN [status |-> "error", msg |-> "Missing fixing", side |-> "", value |-> NullReal]
    ELSE [status |-> "ok", msg |-> ""] @@ PutSpread(fx[exerciseDate], optionStrike, spreadWidth)

\* CMS with a Hagan pricer: a boundary whose standard deviation is at least
\* minStd is valued by replication
CmsHaganPut(S, K, std) ==
    IF std < minStd
    THEN IF S < K THEN Real(100, 100) ELSE Real(0, 100)
    ELSE PutSpread(S, K, SpreadWidth).value

CmsHaganInRangeProbability(S, lo, up, standardDevLow, standardDevUpp) ==
    Minus(CmsHaganPut(S, up, standardDevUpp), CmsHaganPut(S, lo, standardDevLow))

InRangeProbability(fam, S, lo, up, sl, su) ==
    IF fam = "FX" THEN FxInRangeProbability(S, lo, up, sl, su)
    ELSE IF fam = "CMS" THEN CmsInRangeProbability(S, lo, up, sl, su)
    ELSE CmsHaganInRangeProbability(S, lo, up, sl, su)

----------------------------------------------------------------------------
(* Pricer::initialize and the coupon's count-based fallback *)

\* per-date entries whose keys lack the date
DateEntriesUndated(d, S, sl, su, p) ==
    (<<"indexObservation", 0>> :> Real(S, 1)) @@
    (<<"standardDevLow", 0>> :> Real(sl, 1)) @@
    (<<"standardDevUpp", 0>> :> Real(su, 1)) @@
    (<<"inRangeProbability", 0>> :> p)

\* additionalResults_[<metric>_ + date_s] = ...
DateEntries(d, S, sl, su, p) ==
    (<<"indexObservation", d>> :> Real(S, 1)) @@
    (<<"standardDevLow", d>> :> Real(sl, 1)) @@
    (<<"standardDevUpp", d>> :> Real(su, 1)) @@
    (<<"inRangeProbability", d>> :> p)

\* the loop over the observation dates; a missing fixing or an empty
\* volatility handle throws out of it, leaving the entries written so far
RECURSIVE InitializeLoop(_, _, _, _, _, _, _)
InitializeLoop(fam, fx, v, cp, i, daysInRange, results) ==
    IF i > Len(cp.schedule)
    THEN [failed |-> FALSE, daysInRange |-> daysInRange, results |-> results]
    ELSE LET d == cp.schedule[i] IN
         IF d \notin DOMAIN fx \/ v = {}
         THEN [failed |-> TRUE, daysInRange |-> daysInRange, results |-> results]
         ELSE LET S == fx[d]
                  surface == CHOOSE x \in v : TRUE
                  sl == StdDev(surface, d, cp.lowerTrigger)
                  su == StdDev(surface, d, cp.upperTrigger)
                  p == InRangeProbability(fam, S, cp.lowerTrigger, cp.upperTrigger, sl, su)
              IN  InitializeLoop(fam, fx, v, cp, i + 1, Plus(daysInRange, p),
                                 DateEntries(d, S, sl, su, p) @@ results)

\* an initialize that keeps the previous diagnostics
NotCleared(results) == results

\* additionalResults_.clear()
Cleared(results) == NoResults

\* initialize(coupon): the pricer's (rangeAccrual_, additionalResults_) after
\* the call, given what it held before
Initialize(fam, fx, v, cp, oldRangeAccrual, oldResults) ==
    LET run == InitializeLoop(fam, fx, v, cp, 1, Real(0, 100), Cleared(oldResults))
        size == Len(cp.schedule)
    IN  IF run.failed
        THEN [failed |-> TRUE, rangeAccrual |-> oldRangeAccrual, results |-> run.results]
        ELSE [failed |-> FALSE,
              rangeAccrual |-> DivReal(run.daysInRange, size),
              results |-> (<<"daysInRange", 0>> :> run.daysInRange) @@
                          (<<"observationDays", 0>> :> Real(size, 1)) @@ run.results]

\* a fallback loop counting over the open band
RECURSIVE FallbackLoopOpenBand(_, _, _, _)
FallbackLoopOpenBand(fx, cp, i, inRange) ==
    IF i > Len(cp.schedule)
    THEN [failed |-> FALSE, inRange |-> inRange]
    ELSE LET d == cp.schedule[i] IN
         IF d \notin DOMAIN fx
         THEN [failed |-> TRUE, inRange |-> inRange]
         ELSE FallbackLoopOpenBand(fx, cp, i + 1,
                  IF fx[d] > cp.lowerTrigger /\ fx[d] < cp.upperTrigger
                  THEN inRange + 1 ELSE inRange)

\* the fallback loop: counts the dates whose fixing lies in the closed band
RECURSIVE FallbackLoop(_, _, _, _)
FallbackLoop(fx, cp, i, inRange) ==
    IF i > Len(cp.schedule)
    THEN [failed |-> FALSE, inRange |-> inRange]
    ELSE LET d == cp.schedule[i] IN
         IF d \notin DOMAIN fx
         THEN [failed |-> TRUE, inRange |-> inRange]
         ELSE LET indexObservation == fx[d] IN
              FallbackLoop(fx, cp, i + 1,
                  IF indexObservation >= cp.lowerTrigger /\ indexObservation <= cp.upperTrigger
                  THEN inRange + 1 ELSE inRange)


----------------------------------------------------------------------------
(* The coupon *)

\* FixedRateCoupon::amount(): nominal * rate * dayCounter.yearFraction(start, end)
FixedRateCouponAmount(cp) ==
    cp.nominal * cp.rate * (cp.accrualEndDate - cp.accrualStartDate)

\* the pricers constructed from a Hagan CMS coupon pricer (the others are
\* constructed from a volatility handle and hold no Hagan pricer)
HaganPricers == {2}
HasHagan(fam, p) == fam = "CMS" /\ p \in HaganPricers

\* whose initialize runs: the FX pricer's, the CMS pricer's without or with
\* its Hagan pricer
PricerFamily(fam, p) == IF HasHagan(fam, p) THEN "CMS-Hagan" ELSE fam

\* a performCalculations() that copies the pricer's results before it knows
\* that initialize went through
PerformCalculationsEarlyCopy(fam, fx, v, cp, p, oldRangeAccrual, oldResults, pricerRA, pricerRes) ==
    IF p # NoPricer
    THEN LET init == Initialize(PricerFamily(fam, p), fx, v, cp,
                                pricerRA[p], pricerRes[p]) IN
         [failed |-> init.failed,
          rangeAccrual |-> init.rangeAccrual,
          results |-> init.results,
          pricerRA |-> [pricerRA EXCEPT ![p] = init.rangeAccrual],
          pricerRes |-> [pricerRes EXCEPT ![p] = init.results]]
    ELSE LET loop == FallbackLoop(fx, cp, 1, 0) IN
         [failed |-> loop.failed,
          rangeAccrual |-> Div(loop.inRange, Len(cp.schedule)),
          results |-> oldResults,
          pricerRA |-> pricerRA,
          pricerRes |-> pricerRes]

\* a performCalculations() whose fallback empties the diagnostics
PerformCalculationsFallbackClears(fam, fx, v, cp, p, oldRangeAccrual, oldResults, pricerRA, pricerRes) ==
    IF p # NoPricer
    THEN LET init == Initialize(PricerFamily(fam, p), fx, v, cp,
                                pricerRA[p], pricerRes[p]) IN
         [failed |-> init.failed,
          rangeAccrual |-> IF init.failed THEN oldRangeAccrual ELSE init.rangeAccrual,
          results |-> IF init.failed THEN oldResults ELSE init.results,
          pricerRA |-> [pricerRA EXCEPT ![p] = init.rangeAccrual],
          pricerRes |-> [pricerRes EXCEPT ![p] = init.results]]
    ELSE LET loop == FallbackLoop(fx, cp, 1, 0) IN
         [failed |-> loop.failed,
          rangeAccrual |-> IF loop.failed THEN oldRangeAccrual
                           ELSE Div(loop.inRange, Len(cp.schedule)),
          results |-> NoResults,
          pricerRA |-> pricerRA,
          pricerRes |-> pricerRes]

\* performCalculations(): what the coupon and its pricer hold afterwards
PerformCalculations(fam, fx, v, cp, p, oldRangeAccrual, oldResults, pricerRA, pricerRes) ==
    IF p # NoPricer
    THEN LET init == Initialize(PricerFamily(fam, p), fx, v, cp,
                                pricerRA[p], pricerRes[p]) IN
         [failed |-> init.failed,
          rangeAccrual |-> IF init.failed THEN oldRangeAccrual ELSE init.rangeAccrual,
          results |-> IF init.failed THEN oldResults ELSE init.results,
          pricerRA |-> [pricerRA EXCEPT ![p] = init.rangeAccrual],
          pricerRes |-> [pricerRes EXCEPT ![p] = init.results]]
    ELSE LET loop == FallbackLoop(fx, cp, 1, 0) IN
         [failed |-> loop.failed,
          rangeAccrual |-> IF loop.failed THEN oldRangeAccrual
                           ELSE Div(loop.inRange, Len(cp.schedule)),
          results |-> oldResults,
          pricerRA |-> pricerRA,
          pricerRes |-> pricerRes]

\* LazyObject::calculate(): performCalculations() only when not calculated;
\* a throwing performCalculations() leaves the object not calculated
Calculate(c) ==
    IF calculated_[c]
    THEN [recomputed |-> FALSE, failed |-> FALSE,
          rangeAccrual |-> rangeAccrual_[c], results |-> additionalResults_[c],
          pricerRA |-> pricerRangeAccrual_, pricerRes |-> pricerResults_]
    ELSE [recomputed |-> TRUE] @@
         PerformCalculations(family, fixings, vol, coupon[c], pricer_[c],
                             rangeAccrual_[c], additionalResults_[c],
                             pricerRangeAccrual_, pricerResults_)

\* an amount() that returns the base amount alone
AmountWithoutAccrual(rangeAccrual, cp) == Real(FixedRateCouponAmount(cp), 1)

\* a rangeAccrual()/amount() that calls performCalculations() directly
PerformAlways(c) ==
    [recomputed |-> TRUE] @@
    PerformCalculations(family, fixings, vol, coupon[c], pricer_[c],
                        rangeAccrual_[c], additionalResults_[c],
                        pricerRangeAccrual_, pricerResults_)

\* a coupon that keeps no copy of its own and reads what its pricer holds
CalculateReadingPricer(c) ==
    LET r == Calculate(c) IN
    IF pricer_[c] # NoPricer /\ ~r.failed
    THEN [r EXCEPT !.rangeAccrual = r.pricerRA[pricer_[c]],
                   !.results = r.pricerRes[pricer_[c]]]
    ELSE r

\* the calculate() call that opens rangeAccrual() and amount()
CouponCalculate(c) == Calculate(c)

\* return rangeAccrual_ * FixedRateCoupon::amount()
AmountValue(rangeAccrual, cp) == Times(rangeAccrual, FixedRateCouponAmount(cp))

NoArgs == [ctor |-> "", nullSchedule |-> FALSE, nullIndex |-> FALSE,
           lowerTrigger |-> 0, upperTrigger |-> 0]

Ret(op, c, status, msg, value, recomputed, args) ==
    [op |-> op, c |-> c, status |-> status, msg |-> msg, value |-> value,
     recomputed |-> recomputed, args |-> args]

\* the constructors' outcomes.  The derived-schedule constructor reads
\* index->fixingCalendar() in its initializer list, before any check: on a
\* null index that is undefined behaviour (a crash, or an assertion of the
\* smart pointer), never the validation error
IndexRequired(fam) == IF fam = "FX" THEN "fxIndex_ required." ELSE "cmsIndex_ required."

ExplicitCtor(fam, nullSchedule, nullIndex, lo, up) ==
    IF nullSchedule THEN {<<"error", "observationsSchedule_ required.">>}
    ELSE IF nullIndex THEN {<<"error", IndexRequired(fam)>>}
    ELSE IF ~(lo > 0) THEN {<<"error", "lowerTrigger_ > 0.0 required.">>}
    ELSE IF ~(lo < up) THEN {<<"error", "lowerTrigger_ < upperTrigger_ required.">>}
    ELSE {<<"ok", "">>}

DerivedCtor(fam, nullIndex, lo, up) ==
    IF nullIndex THEN {<<"crash", "">>, <<"assert", "">>}
    ELSE IF fam = "FX" /\ ~(lo > 0) THEN {<<"error", "lowerTrigger_ > 0.0 required.">>}
    ELSE IF ~(lo < up) THEN {<<"error", "lowerTrigger_ < upperTrigger_ required.">>}
    ELSE {<<"ok", "">>}

\* observers of the index and of the volatility handle: neither the coupons'
\* nor the pricers' constructors call registerWith on them
IndexObservers == {}
VolatilityObservers == {}

\* LazyObject::update() on each notified coupon
Notify(cs) == [c \in Coupons |-> IF c \in cs THEN FALSE ELSE calculated_[c]]

----------------------------------------------------------------------------
(* State machine *)

ScheduleArgs == {[null |-> TRUE, dates |-> <<>>]} \cup
                {[null |-> FALSE, dates |-> s] : s \in Schedules}
LinkedVols == {{BlackConstantVol(ReferenceDate, v)} : v \in VolLevels}
VolStates == {{}} \cup LinkedVols

\* no coupon constructed, no fixing stored, the pricers fresh
InitObjects ==
    /\ family \in Families
    /\ fixings = <<>>
    /\ coupon = [c \in Coupons |-> NoCoupon]
    /\ pricer_ = [c \in Coupons |-> NoPricer]
    /\ calculated_ = [c \in Coupons |-> FALSE]
    /\ rangeAccrual_ = [c \in Coupons |-> Real(0, 1)]
    /\ additionalResults_ = [c \in Coupons |-> NoResults]
    /\ observers = [p \in Pricers |-> {}]
    /\ pricerRangeAccrual_ = [p \in Pricers |-> NullReal]
    /\ pricerResults_ = [p \in Pricers |-> NoResults]
    /\ ret = Ret("", 0, "ok", "", NullReal, FALSE, NoArgs)

Init == InitObjects /\ vol \in LinkedVols

NewCoupon(schedule, lo, up, nominal) ==
    [exists |-> TRUE, schedule |-> schedule, lowerTrigger |-> lo, upperTrigger |-> up,
     nominal |-> nominal, rate |-> 3, accrualStartDate |-> 1, accrualEndDate |-> MaxDate]

Constructed(c, out, args, cp) ==
    /\ ret' = Ret("construct", c, out[1], out[2], NullReal, FALSE, args)
    /\ coupon' = IF out[1] = "ok" THEN [coupon EXCEPT ![c] = cp] ELSE coupon
    /\ UNCHANGED <<family, fixings, vol, pricer_, calculated_, rangeAccrual_,
                   additionalResults_, observers, pricerRangeAccrual_, pricerResults_>>

\* the constructor taking the observation schedule; a null schedule pointer is
\* the argument [null |-> TRUE]
ConstructExplicit(c, sched, nullIndex, lo, up, nominal) ==
    /\ coupon[c] = NoCoupon
    /\ \E out \in ExplicitCtor(family, sched.null, nullIndex, lo, up) :
        Constructed(c, out,
                    [ctor |-> "explicit", nullSchedule |-> sched.null,
                     nullIndex |-> nullIndex, lowerTrigger |-> lo, upperTrigger |-> up],
                    NewCoupon(sched.dates, lo, up, nominal))

\* the constructor deriving the daily schedule from the accrual period
ConstructDerived(c, nullIndex, lo, up, nominal) ==
    /\ coupon[c] = NoCoupon
    /\ \E out \in DerivedCtor(family, nullIndex, lo, up) :
        Constructed(c, out,
                    [ctor |-> "derived", nullSchedule |-> FALSE,
                     nullIndex |-> nullIndex, lowerTrigger |-> lo, upperTrigger |-> up],
                    NewCoupon(DailySchedule, lo, up, nominal))

CalculateInto(c, r) ==
    /\ calculated_' = [calculated_ EXCEPT ![c] = ~r.failed]
    /\ rangeAccrual_' = [rangeAccrual_ EXCEPT ![c] = r.rangeAccrual]
    /\ additionalResults_' = [additionalResults_ EXCEPT ![c] = r.results]
    /\ pricerRangeAccrual_' = r.pricerRA
    /\ pricerResults_' = r.pricerRes

RangeAccrual(c) ==
    /\ coupon[c] # NoCoupon
    /\ LET r == CouponCalculate(c) IN
        /\ CalculateInto(c, r)
        /\ ret' = Ret("rangeAccrual", c, IF r.failed THEN "error" ELSE "ok", "",
                      IF r.failed THEN NullReal ELSE r.rangeAccrual, r.recomputed, NoArgs)
    /\ UNCHANGED <<family, fixings, vol, coupon, pricer_, observers>>

Amount(c) ==
    /\ coupon[c] # NoCoupon
    /\ LET r == CouponCalculate(c) IN
        /\ CalculateInto(c, r)
        /\ ret' = Ret("amount", c, IF r.failed THEN "error" ELSE "ok", "",
                      IF r.failed THEN NullReal ELSE AmountValue(r.rangeAccrual, coupon[c]),
                      r.recomputed, NoArgs)
    /\ UNCHANGED <<family, fixings, vol, coupon, pricer_, observers>>

\* a setPricer without its closing update()
SetPricerWithoutUpdate(c) == calculated_

\* the update() that closes setPricer
SetPricerUpdate(c) == Notify({c})

\* a setPricer that registers with the new pricer and stays registered with
\* the old one
RebindWithoutUnregister(obs, c, old, p) ==
    [q \in Pricers |-> IF q = p THEN obs[q] \cup {c} ELSE obs[q]]

\* unregisterWith(old); pricer_ = pricer; registerWith(pricer); update()
Rebind(obs, c, old, p) ==
    [q \in Pricers |-> IF q = p THEN obs[q] \cup {c}
                       ELSE IF q = old THEN obs[q] \ {c}
                       ELSE obs[q]]

SetPricer(c, p) ==
    /\ coupon[c] # NoCoupon
    /\ observers' = Rebind(observers, c, pricer_[c], p)
    /\ pricer_' = [pricer_ EXCEPT ![c] = p]
    /\ calculated_' = SetPricerUpdate(c)
    /\ ret' = Ret("setPricer", c, "ok", "", NullReal, FALSE, NoArgs)
    /\ UNCHANGED <<family, fixings, vol, coupon, rangeAccrual_, additionalResults_,
                   pricerRangeAccrual_, pricerResults_>>

\* index->addFixing(d, v): the index notifies its observers
AddFixing(d, v) ==
    /\ IF d \in DOMAIN fixings THEN fixings[d] # v ELSE TRUE
    /\ fixings' = (d :> v) @@ fixings
    /\ calculated_' = Notify(IndexObservers)
    /\ ret' = Ret("addFixing", 0, "ok", "", NullReal, FALSE, NoArgs)
    /\ UNCHANGED <<family, vol, coupon, pricer_, rangeAccrual_, additionalResults_,
                   observers, pricerRangeAccrual_, pricerResults_>>

\* the volatility handle is relinked or its quote set: the handle notifies
\* its observers, and a notified pricer forwards to its own (update())
SetVolatility(nv) ==
    /\ nv # vol
    /\ vol' = nv
    /\ calculated_' = Notify(UNION {observers[p] : p \in VolatilityObservers})
    /\ ret' = Ret("setVolatility", 0, "ok", "", NullReal, FALSE, NoArgs)
    /\ UNCHANGED <<family, fixings, coupon, pricer_, rangeAccrual_, additionalResults_,
                   observers, pricerRangeAccrual_, pricerResults_>>

\* Pricer::update() { notifyObservers(); }
PricerUpdate(p) ==
    /\ calculated_' = Notify(observers[p])
    /\ ret' = Ret("pricerUpdate", 0, "ok", "", NullReal, FALSE, NoArgs)
    /\ UNCHANGED <<family, fixings, vol, coupon, pricer_, rangeAccrual_,
                   additionalResults_, observers, pricerRangeAccrual_, pricerResults_>>

\* an additionalResults() that calculates before it returns the mapping
AdditionalResultsCalculating(c) ==
    LET r == Calculate(c) IN
    [calculated |-> ~r.failed, rangeAccrual |-> r.rangeAccrual, results |-> r.results,
     pricerRA |-> r.pricerRA, pricerRes |-> r.pricerRes]

\* additionalResults() const { return additionalResults_; }: what the coupon
\* and the pricers hold after the call, and the mapping returned
AdditionalResultsAccess(c) ==
    [calculated |-> calculated_[c], rangeAccrual |-> rangeAccrual_[c],
     results |-> additionalResults_[c],
     pricerRA |-> pricerRangeAccrual_, pricerRes |-> pricerResults_]

AdditionalResults(c) ==
    /\ coupon[c] # NoCoupon
    /\ LET r == AdditionalResultsAccess(c) IN
        /\ calculated_' = [calculated_ EXCEPT ![c] = r.calculated]
        /\ rangeAccrual_' = [rangeAccrual_ EXCEPT ![c] = r.rangeAccrual]
        /\ additionalResults_' = [additionalResults_ EXCEPT ![c] = r.results]
        /\ pricerRangeAccrual_' = r.pricerRA
        /\ pricerResults_' = r.pricerRes
        /\ ret' = Ret("additionalResults", c, "ok", "", NullReal, FALSE,
                      [results |-> r.results])
    /\ UNCHANGED <<family, fixings, vol, coupon, pricer_, observers>>

\* an accept that visits and then also passes the visitor to the base class
AcceptVisitAndBase(recognizes) ==
    IF recognizes THEN {"visit", "FixedRateCoupon::accept"}
    ELSE {"FixedRateCoupon::accept"}

\* the calls accept(v) makes: v1->visit(*this) when the dynamic_cast to the
\* visitor of the range-accrual coupon type succeeds, FixedRateCoupon::accept(v)
\* when it yields nullptr
AcceptDispatch(recognizes) ==
    IF recognizes THEN {"visit"} ELSE {"FixedRateCoupon::accept"}

\* accept(v), the visitor recognizing the range-accrual coupon type or not
Accept(c, recognizes) ==
    /\ coupon[c] # NoCoupon
    /\ ret' = Ret("accept", c, "ok", "", NullReal, FALSE,
                  [recognizes |-> recognizes, calls |-> AcceptDispatch(recognizes)])
    /\ UNCHANGED <<family, fixings, vol, coupon, pricer_, calculated_, rangeAccrual_,
                   additionalResults_, observers, pricerRangeAccrual_, pricerResults_>>

\* CmsRangeAccrualFixedCouponPricer(cmsCouponPricer): the initializer list
\* reads cmsCouponPricer->swaptionVolatility() before the body checks the
\* pointer, so a null argument is undefined behaviour (a crash, or an
\* assertion of the smart pointer) and the first QL_REQUIRE is never reached
\* with it
CmsCouponPricerArgs == {"null", "hagan", "other"}
PricerCtor(cmsCouponPricer) ==
    IF cmsCouponPricer = "null" THEN {<<"crash", "">>, <<"assert", "">>}
    ELSE IF cmsCouponPricer # "hagan"
    THEN {<<"error", "Cannot down-cast cmsCouponPricer to HaganPricer.">>}
    ELSE {<<"ok", "">>}

ConstructPricer(cmsCouponPricer) ==
    /\ \E out \in PricerCtor(cmsCouponPricer) :
          ret' = Ret("constructPricer", 0, out[1], out[2], NullReal, FALSE,
                     [cmsCouponPricer |-> cmsCouponPricer])
    /\ UNCHANGED <<family, fixings, vol, coupon, pricer_, calculated_, rangeAccrual_,
                   additionalResults_, observers, pricerRangeAccrual_, pricerResults_>>

\* a direct call of pricer p's cmsPutOption
CmsPutOptionCall(p, exerciseDate, optionStrike, spreadWidth) ==
    /\ LET out == CmsPutOption(HasHagan(family, p), fixings, exerciseDate,
                               optionStrike, spreadWidth) IN
        ret' = Ret("cmsPutOption", 0, out.status, out.msg, out.value, FALSE,
                   [pricer |-> p, exerciseDate |-> exerciseDate,
                    optionStrike |-> optionStrike, spreadWidth |-> spreadWidth,
                    side |-> out.side])
    /\ UNCHANGED <<family, fixings, vol, coupon, pricer_, calculated_, rangeAccrual_,
                   additionalResults_, observers, pricerRangeAccrual_, pricerResults_>>

----------------------------------------------------------------------------
(* Specifications *)

ValidSchedules == {[null |-> FALSE, dates |-> s] : s \in Schedules \ {<<>>}}

\* Spec: the lazy-evaluation machine of one coupon with valid terms and one
\* pricer over a linked flat surface
Next ==
    \/ \E sched \in ValidSchedules, lo \in {1, 2}, nominal \in Nominals :
            ConstructExplicit(1, sched, FALSE, lo, lo + 1, nominal)
    \/ \E lo \in {1, 2}, nominal \in Nominals :
            ConstructDerived(1, FALSE, lo, lo + 1, nominal)
    \/ RangeAccrual(1)
    \/ Amount(1)
    \/ \E p \in {1, NoPricer} : SetPricer(1, p)
    \/ \E d \in Dates, v \in {2, 3} : AddFixing(d, v)
    \/ \E nv \in LinkedVols : SetVolatility(nv)
    \/ PricerUpdate(1)

Spec == Init /\ [][Next]_vars

\* SpecRebind: one coupon rebound among two pricers
NextRebind ==
    \/ \E lo \in {1, 2}, nominal \in Nominals :
            ConstructDerived(1, FALSE, lo, lo + 1, nominal)
    \/ RangeAccrual(1)
    \/ Amount(1)
    \/ \E p \in Pricers \cup {NoPricer} : SetPricer(1, p)
    \/ \E d \in Dates : AddFixing(d, 2)
    \/ \E nv \in LinkedVols : SetVolatility(nv)
    \/ \E p \in Pricers : PricerUpdate(p)
    \/ AdditionalResults(1)

SpecRebind == Init /\ [][NextRebind]_vars

\* SpecFallback: construction from every argument combination, and the
\* count-based fallback of a coupon without pricer
NextFallback ==
    \/ \E sched \in ScheduleArgs, nullIndex \in BOOLEAN,
          lo \in Triggers, up \in Triggers, nominal \in Nominals :
            ConstructExplicit(1, sched, nullIndex, lo, up, nominal)
    \/ \E nullIndex \in BOOLEAN, lo \in Triggers, up \in Triggers, nominal \in Nominals :
            ConstructDerived(1, nullIndex, lo, up, nominal)
    \/ RangeAccrual(1)
    \/ Amount(1)
    \/ \E d \in Dates, v \in Values : AddFixing(d, v)

InitFallback == Init /\ vol = {BlackConstantVol(ReferenceDate, 0)}

SpecFallback == InitFallback /\ [][NextFallback]_vars

\* SpecMissing: one coupon and one pricer while fixings are missing and the
\* volatility handle may be empty
NextMissing ==
    \/ \E lo \in {1, 2}, nominal \in Nominals :
            ConstructDerived(1, FALSE, lo, lo + 1, nominal)
    \/ RangeAccrual(1)
    \/ Amount(1)
    \/ \E p \in {1, NoPricer} : SetPricer(1, p)
    \/ \E d \in Dates : AddFixing(d, 2)
    \/ \E nv \in VolStates : SetVolatility(nv)

InitMissing == InitObjects /\ vol = {}

SpecMissing == InitMissing /\ [][NextMissing]_vars

\* SpecShared: two coupons with schedules of their own on one pricer
NextShared ==
    \/ \E c \in Coupons, sched \in ValidSchedules, lo \in {1, 2}, nominal \in Nominals :
            ConstructExplicit(c, sched, FALSE, lo, lo + 1, nominal)
    \/ \E c \in Coupons : RangeAccrual(c)
    \/ \E c \in Coupons : Amount(c)
    \/ \E c \in Coupons : SetPricer(c, 1)
    \/ \E d \in Dates : AddFixing(d, 2)
    \/ PricerUpdate(1)

InitShared == Init /\ family = "FX" /\ vol = {BlackConstantVol(ReferenceDate, 10)}

SpecShared == InitShared /\ [][NextShared]_vars

\* SpecAdjacent: two coupons without pricer on one index, their bands
\* [1, 2] and [2, 3] sharing the boundary 2
AdjacentLower(c) == c

NextAdjacent ==
    \/ \E c \in Coupons, sched \in ValidSchedules, nominal \in Nominals :
            ConstructExplicit(c, sched, FALSE, AdjacentLower(c), AdjacentLower(c) + 1, nominal)
    \/ \E c \in Coupons : RangeAccrual(c)
    \/ \E d \in Dates, v \in Values : AddFixing(d, v)

SpecAdjacent == InitFallback /\ [][NextAdjacent]_vars

\* SpecSmile: one coupon and one pricer over surfaces whose volatility
\* depends on the strike: flat at 10, falling from 10 at strike 1 to 0 from
\* strike 2 on, 0 up to strike 2 and 80 at strike 3
SmileVols == {{SmileVol(ReferenceDate, 10, 0)},
              {SmileVol(ReferenceDate, 20, -10)},
              {SmileVol(ReferenceDate, -160, 80)}}

NextSmile ==
    \/ \E sched \in ValidSchedules, lo \in {1, 2}, nominal \in Nominals :
            ConstructExplicit(1, sched, FALSE, lo, lo + 1, nominal)
    \/ RangeAccrual(1)
    \/ SetPricer(1, 1)
    \/ \E d \in Dates, v \in Values : AddFixing(d, v)
    \/ \E nv \in SmileVols : SetVolatility(nv)

InitSmile == InitObjects /\ vol \in SmileVols

SpecSmile == InitSmile /\ [][NextSmile]_vars

\* SpecReplication: a CMS coupon on a pricer without and on a pricer with a
\* Hagan pricer, and direct calls of cmsPutOption
SpreadWidths == {0, SpreadWidth, 2 * SpreadWidth}

NextReplication ==
    \/ \E sched \in ValidSchedules, nominal \in Nominals :
            ConstructExplicit(1, sched, FALSE, 2, 3, nominal)
    \/ RangeAccrual(1)
    \/ \E p \in Pricers : SetPricer(1, p)
    \/ \E d \in Dates, v \in Values : AddFixing(d, v)
    \/ \E p \in Pricers, d \in Dates, K \in {2}, w \in SpreadWidths :
            CmsPutOptionCall(p, d, K, w)
    \/ \E arg \in CmsCouponPricerArgs : ConstructPricer(arg)

InitReplication == Init /\ family = "CMS" /\ vol = {BlackConstantVol(ReferenceDate, 10)}

SpecReplication == InitReplication /\ [][NextReplication]_vars

\* SpecAccept: one coupon visited between its other calls
NextAccept ==
    \/ \E sched \in ValidSchedules, lo \in {1, 2}, nominal \in Nominals :
            ConstructExplicit(1, sched, FALSE, lo, lo + 1, nominal)
    \/ RangeAccrual(1)
    \/ \E p \in {1, NoPricer} : SetPricer(1, p)
    \/ \E d \in Dates : AddFixing(d, 2)
    \/ \E recognizes \in BOOLEAN : Accept(1, recognizes)

SpecAccept == Init /\ [][NextAccept]_vars

----------------------------------------------------------------------------
(* The reference scenario of the FX tests: one fixing per TARGET business day
   of 2015, coupons accruing from 31 August to 30 September 2015.

   A date is its day of the year 2015.  A fixing or trigger is a double in
   [1, 2), written as an integer that keeps the order of the doubles: the
   double nearest to 1 + u/1000 plus e ulps is u * RefTick + 1000 * e (an
   ulp is 2^-52, a tick of 0.001 is about 4.5e12 ulps, and the deviations
   that occur stay below 500 ulps). *)

YearDays == 365
RefTick == 1000000

\* fx += 0.001 on a double in [1, 2): the double 0.001, added and rounded to
\* 52 binary places, is 4503599627370 ulps, 0.496 ulps short of 0.001
RefStepLoss == 496
RefStep == RefTick - RefStepLoss

\* the literal 1 + u/1000 as a double: u * 4503599627370.496 ulps rounded to
\* the nearest ulp
RefLiteral(u) ==
    LET frac == (u * RefStepLoss) % 1000
    IN  u * RefTick - u * RefStepLoss + (IF frac < 500 THEN (u * RefStepLoss) - frac
                                          ELSE (u * RefStepLoss) - frac + 1000)

\* 1 January 2015 is a Thursday; TARGET closes on weekends, 1 January, Good
\* Friday (3 April), Easter Monday (6 April), 1 May, 25 and 26 December
TargetHolidays2015 == {1, 93, 96, 121, 359, 360}
IsWeekend(d) == ((d + 2) % 7) \in {5, 6}
IsBusinessDay(d) == ~IsWeekend(d) /\ d \notin TargetHolidays2015

\* a schedule of every calendar day from a to b
CalendarDays(a, b) == [i \in 1..(b - a + 1) |-> a + i - 1]

\* a daily schedule from a to b, adjusted Following on the TARGET calendar,
\* dates that adjust to the same day kept once: the business days from a to b
\* (b being one)
BusinessDays(a, b) ==
    LET days == {d \in a..b : IsBusinessDay(d)}
    IN  [i \in 1..Cardinality(days) |->
            CHOOSE d \in days : Cardinality({e \in days : e <= d}) = i]

\* Schedule(Date(1, January, 2015), Date(31, December, 2015), Period(1, Days), TARGET(), Following, ...)
RefFixingSchedule == BusinessDays(1, YearDays)

RefStartDate == 243
RefEndDate == 273

\* the schedule the derived-schedule constructor builds for the coupon
RefObservationsSchedule == BusinessDays(RefStartDate, RefEndDate)

\* make_coupon(lowerTrigger, upperTrigger): notional 100, rate 1%
RefCoupon(lo, up) ==
    [exists |-> TRUE, schedule |-> RefObservationsSchedule,
     lowerTrigger |-> RefLiteral(lo), upperTrigger |-> RefLiteral(up),
     nominal |-> 100, rate |-> 1,
     accrualStartDate |-> RefStartDate, accrualEndDate |-> RefEndDate]

\* the bands of the tests, in ticks of 0.001 above 1
RefBands == {<<100, 150>>, <<150, 200>>, <<200, 220>>, <<150, 175>>, <<100, 175>>}

\* the loop "fxIndex->addFixing(date, fx); fx += 0.001": its next iteration
RefAddFixing ==
    LET k == Cardinality(DOMAIN fixings) IN
    /\ k < Len(RefFixingSchedule)
    /\ AddFixing(RefFixingSchedule[k + 1], k * RefStep)

RefConstruct(c, lo, up) ==
    /\ coupon[c] = NoCoupon
    /\ Cardinality(DOMAIN fixings) = Len(RefFixingSchedule)
    /\ \E out \in DerivedCtor(family, FALSE, RefLiteral(lo), RefLiteral(up)) :
        Constructed(c, out,
                    [ctor |-> "derived", nullSchedule |-> FALSE, nullIndex |-> FALSE,
                     lowerTrigger |-> RefLiteral(lo), upperTrigger |-> RefLiteral(up)],
                    RefCoupon(lo, up))

\* "Date today = Settings::instance().evaluationDate()": no test sets the
\* evaluation date, so it is the day the test runs, counted here like every
\* date of the scenario from 31 December 2014.  The tests are dated 2024: the
\* earliest run is on 1 January 2024, and every later day behaves alike
RefEarliestEvaluationDate == 3288
RefEvaluationDates == {RefEarliestEvaluationDate, RefEarliestEvaluationDate + YearDays}

\* SimpleQuote(0.25), in percent
RefVolLevel == 25

\* BlackConstantVol(today, TARGET(), volQuote, Actual365Fixed())
RefSurfaces == {BlackConstantVol(today, RefVolLevel) : today \in RefEvaluationDates}

NextReference ==
    \/ RefAddFixing
    \/ \E band \in RefBands : RefConstruct(1, band[1], band[2])
    \/ SetPricer(1, 1)
    \/ RangeAccrual(1)
    \/ Amount(1)

InitReference == InitObjects /\ family = "FX" /\ vol \in {{s} : s \in RefSurfaces}

SpecReference == InitReference /\ [][NextReference]_vars

----------------------------------------------------------------------------
(* Claims *)

Calls == {"rangeAccrual", "amount"}

\* the number of observation dates of cp whose fixing lies in the closed band
InBandCount(cp) ==
    Cardinality({i \in 1..Len(cp.schedule) :
                    /\ cp.lowerTrigger <= fixings[cp.schedule[i]]
                    /\ fixings[cp.schedule[i]] <= cp.upperTrigger})

\* a successful call on a coupon without pricer that ran the fallback
FallbackRan ==
    /\ ret.op \in Calls
    /\ ret.status = "ok"
    /\ ret.recomputed
    /\ pricer_[ret.c] = NoPricer

\* C1: a successful amount() returns the coupon's rangeAccrual of that state
\* times nominal * rate * (accrualEnd - accrualStart), with or without pricer
C1_AmountIsAccrualTimesBase ==
    (ret.op = "amount" /\ ret.status = "ok") =>
        LET cp == coupon[ret.c] IN
        /\ ret.value.num = rangeAccrual_[ret.c].num * cp.nominal * cp.rate
                              * (cp.accrualEndDate - cp.accrualStartDate)
        /\ ret.value.den = rangeAccrual_[ret.c].den

C1_Witness ==
    /\ ret.op = "amount"
    /\ ret.status = "ok"
    /\ pricer_[ret.c] # NoPricer
    /\ ret.value.num > 0

\* C2: when the fallback runs, rangeAccrual() is the number of observation
\* dates with lowerTrigger <= fixing <= upperTrigger over the number of
\* observation dates
C2_FallbackIsCountOverSize ==
    (FallbackRan /\ ret.op = "rangeAccrual") =>
        ret.value = Real(InBandCount(coupon[ret.c]), Len(coupon[ret.c].schedule))

\* a fallback ran with one fixing on the lower and one on the upper boundary
C2_Witness ==
    /\ FallbackRan
    /\ ret.op = "rangeAccrual"
    /\ LET cp == coupon[ret.c] IN
        /\ Len(cp.schedule) = 2
        /\ fixings[cp.schedule[1]] = cp.lowerTrigger
        /\ fixings[cp.schedule[2]] = cp.upperTrigger
        /\ ret.value = Real(2, 2)

ValidBand(cp) == cp.lowerTrigger > 0 /\ cp.lowerTrigger < cp.upperTrigger

\* C3 as stated: for a valid band the fallback's rangeAccrual lies in [0, 1]
C3_FallbackInUnitInterval ==
    (FallbackRan /\ ValidBand(coupon[ret.c])) =>
        /\ rangeAccrual_[ret.c].den > 0
        /\ 0 <= rangeAccrual_[ret.c].num
        /\ rangeAccrual_[ret.c].num <= rangeAccrual_[ret.c].den

\* C4: when the fallback runs over a non-empty schedule, a band containing
\* every fixing of the schedule gives 1 and a band disjoint from all of them 0
C4_ContainingAndDisjointBands ==
    (FallbackRan /\ ret.op = "rangeAccrual" /\ Len(coupon[ret.c].schedule) > 0) =>
        LET cp == coupon[ret.c]
            fix == {fixings[cp.schedule[i]] : i \in 1..Len(cp.schedule)}
        IN  /\ (\A f \in fix : cp.lowerTrigger <= f /\ f <= cp.upperTrigger)
                => (ret.value.num = ret.value.den /\ ret.value.den > 0)
            /\ ((\A f \in fix : cp.upperTrigger < f) \/ (\A f \in fix : cp.lowerTrigger > f))
                => (ret.value.num = 0 /\ ret.value.den > 0)

\* a fallback over a one-date schedule whose fixing equals the upper boundary
C4_Witness ==
    /\ FallbackRan
    /\ ret.op = "rangeAccrual"
    /\ LET cp == coupon[ret.c] IN
        /\ Len(cp.schedule) = 1
        /\ fixings[cp.schedule[1]] = cp.upperTrigger
        /\ ret.value = Real(1, 1)

\* a fallback over a band below every fixing
C4_WitnessDisjoint ==
    /\ FallbackRan
    /\ ret.op = "rangeAccrual"
    /\ LET cp == coupon[ret.c] IN
        /\ Len(cp.schedule) = 2
        /\ \A i \in 1..2 : fixings[cp.schedule[i]] > cp.upperTrigger
        /\ ret.value = Real(0, 2)

\* C5: a successful rangeAccrual()/amount() leaves the coupon calculated, and
\* a call that follows it directly does not recompute, succeeds, changes no
\* cached result and returns the same value
C5_Step ==
    (ret.op \in Calls /\ ret.status = "ok") =>
        /\ calculated_[ret.c]
        /\ (ret'.op \in Calls /\ ret'.c = ret.c) =>
            /\ ~ret'.recomputed
            /\ ret'.status = "ok"
            /\ rangeAccrual_' = rangeAccrual_
            /\ additionalResults_' = additionalResults_
            /\ pricerRangeAccrual_' = pricerRangeAccrual_
            /\ calculated_'[ret.c]
            /\ (ret'.op = ret.op) => (ret'.value = ret.value)

C5_SecondCallHitsCache == [][C5_Step]_vars

\* a call on a coupon with pricer was served from the cache
C5_Witness ==
    /\ ret.op \in Calls
    /\ ret.status = "ok"
    /\ ~ret.recomputed
    /\ pricer_[ret.c] # NoPricer

\* what a recomputation with the coupon's current pricer yields
FreshRangeAccrual(c) ==
    IF pricer_[c] # NoPricer
    THEN Initialize(PricerFamily(family, pricer_[c]), fixings, vol, coupon[c],
                    NullReal, NoResults).rangeAccrual
    ELSE Real(InBandCount(coupon[c]), Len(coupon[c].schedule))

\* C6: every setPricer(p) leaves the coupon bound to p and not calculated, and
\* the call that follows recomputes: through p's initialize if p is a pricer,
\* through the count-based fallback if not
C6_Step ==
    /\ (ret'.op = "setPricer") => ~calculated_'[ret'.c]
    /\ (ret.op = "setPricer" /\ ret'.op \in Calls /\ ret'.c = ret.c) =>
        /\ ret'.recomputed
        /\ (ret'.status = "ok") =>
            /\ rangeAccrual_'[ret.c] = FreshRangeAccrual(ret.c)
            /\ (pricer_[ret.c] # NoPricer) =>
                    pricerRangeAccrual_'[pricer_[ret.c]] = rangeAccrual_'[ret.c]
            /\ (pricer_[ret.c] = NoPricer) =>
                    pricerRangeAccrual_' = pricerRangeAccrual_

C6_SetPricerInvalidates == [][C6_Step]_vars

\* the coupon was calculated through pricer 1, rebound to pricer 2 and
\* recomputed through it
C6_Witness ==
    /\ ret.op \in Calls
    /\ ret.status = "ok"
    /\ ret.recomputed
    /\ pricer_[ret.c] = 2
    /\ pricerRangeAccrual_[1] # NullReal
    /\ pricerRangeAccrual_[2] = rangeAccrual_[ret.c]

\* C7 as stated: a change of the volatility behind a pricer leaves no coupon
\* bound to a pricer calculated
C7_VolatilityChangeInvalidates ==
    [][(vol' # vol) =>
        \A c \in Coupons : (pricer_[c] # NoPricer /\ calculated_[c]) => ~calculated_'[c]]_vars

\* C8 as stated: a fixing added to or changed on the index leaves no coupon
\* calculated
C8_FixingChangeInvalidates ==
    [][(fixings' # fixings) =>
        \A c \in Coupons : (coupon[c] # NoCoupon /\ calculated_[c]) => ~calculated_'[c]]_vars

\* C9 as stated: a construction with lowerTrigger <= 0 or lowerTrigger >=
\* upperTrigger (and no null argument) ends in a validation error, and no
\* coupon exists with such a band
C9_BandValidated ==
    /\ (/\ ret.op = "construct"
        /\ ~ret.args.nullSchedule
        /\ ~ret.args.nullIndex
        /\ (ret.args.lowerTrigger <= 0 \/ ret.args.lowerTrigger >= ret.args.upperTrigger))
        => ret.status = "error"
    /\ \A c \in Coupons : (coupon[c] # NoCoupon) => ValidBand(coupon[c])

\* C10 as stated: a construction with a null index or a null schedule ends in
\* a validation error
C10_NullReferenceValidated ==
    (ret.op = "construct" /\ (ret.args.nullIndex \/ ret.args.nullSchedule))
        => ret.status = "error"

\* C11 as stated: a CMS construction with lowerTrigger = 0 < upperTrigger and
\* no null argument succeeds, through the explicit-schedule constructor and
\* through the derived-schedule one
C11_CmsZeroLowerAccepted ==
    (/\ ret.op = "construct"
     /\ family = "CMS"
     /\ ~ret.args.nullSchedule
     /\ ~ret.args.nullIndex
     /\ ret.args.lowerTrigger = 0
     /\ ret.args.upperTrigger > 0)
        => ret.status = "ok"

\* C12 as stated: every constructed coupon has at least one observation date,
\* so no successful calculation has divided by a schedule size of zero
C12_ScheduleNonEmpty ==
    /\ \A c \in Coupons : (coupon[c] # NoCoupon) => Len(coupon[c].schedule) > 0
    /\ (ret.op \in Calls /\ ret.status = "ok") => rangeAccrual_[ret.c].den # 0

\* the last step was a call that ran initialize on the coupon's pricer
PricerRan ==
    /\ ret.op \in Calls
    /\ ret.recomputed
    /\ pricer_[ret.c] # NoPricer

\* initialize of coupon c on a pricer fresh from its constructor
FreshInitialize(c) ==
    Initialize(PricerFamily(family, pricer_[c]), fixings, vol, coupon[c], NullReal, NoResults)

RECURSIVE RecordedSum(_, _, _)
RecordedSum(res, sched, i) ==
    IF i > Len(sched) THEN 0
    ELSE res[<<"inRangeProbability", sched[i]>>].num + RecordedSum(res, sched, i + 1)

\* the sum, in percent, of the per-date in-range probabilities of coupon cp
RECURSIVE ProbabilitySum(_, _)
ProbabilitySum(cp, i) ==
    IF i > Len(cp.schedule) THEN 0
    ELSE LET d == cp.schedule[i]
             surface == CHOOSE x \in vol : TRUE
         IN  InRangeProbability(PricerFamily(family, pricer_[ret.c]), fixings[d],
                                cp.lowerTrigger, cp.upperTrigger,
                                StdDev(surface, d, cp.lowerTrigger),
                                StdDev(surface, d, cp.upperTrigger)).num
             + ProbabilitySum(cp, i + 1)

Metrics == {"indexObservation", "standardDevLow", "standardDevUpp", "inRangeProbability"}

\* the keys a pricer-based calculation of coupon cp is to leave
ExpectedKeys(cp) ==
    {<<m, cp.schedule[i]>> : m \in Metrics, i \in 1..Len(cp.schedule)}
        \cup {<<"daysInRange", 0>>, <<"observationDays", 0>>}

DataComplete(c) ==
    /\ \A i \in 1..Len(coupon[c].schedule) : coupon[c].schedule[i] \in DOMAIN fixings
    /\ (pricer_[c] # NoPricer) => (vol # {})

\* C16: construction and setPricer succeed whatever data is missing; a call on
\* an uncalculated coupon fails exactly when a fixing of the schedule is
\* missing or the bound pricer's volatility handle is empty; a failed call
\* leaves the coupon's rangeAccrual and additionalResults as they were and the
\* coupon uncalculated; with the data there the call recomputes and succeeds
C16_Step ==
    /\ (ret'.op \in {"construct", "setPricer"}) => (ret'.status = "ok")
    /\ (ret'.op \in Calls) =>
        LET c == ret'.c IN
        /\ (~calculated_[c]) => (ret'.recomputed /\ (ret'.status = "ok" <=> DataComplete(c)))
        /\ (ret'.status = "error") =>
            /\ rangeAccrual_'[c] = rangeAccrual_[c]
            /\ additionalResults_'[c] = additionalResults_[c]
            /\ ~calculated_'[c]
        /\ (ret'.status = "ok") => calculated_'[c]

C16_FailedCallLeavesNoPartialResult == [][C16_Step]_vars

\* a call failed after the pricer had written the entries of the first date,
\* and the coupon holds none of them
C16_Witness ==
    /\ ret.op \in Calls
    /\ ret.status = "error"
    /\ pricer_[ret.c] # NoPricer
    /\ <<"inRangeProbability", 1>> \in DOMAIN pricerResults_[pricer_[ret.c]]
    /\ additionalResults_[ret.c] = NoResults
    /\ ~calculated_[ret.c]

\* a call succeeded through the pricer after the data had been supplied
C16_WitnessRecovered ==
    /\ PricerRan
    /\ ret.status = "ok"
    /\ pricerResults_[pricer_[ret.c]] = additionalResults_[ret.c]

\* C17: in the reference scenario the coupon with band [1.15, 1.175] has 23
\* observation dates, 8 of them with a fixing in the closed band, and without
\* pricer its rangeAccrual() is 8/23
C17_ReferenceFallback ==
    (/\ coupon[1] # NoCoupon
     /\ coupon[1].lowerTrigger = RefLiteral(150)
     /\ coupon[1].upperTrigger = RefLiteral(175)) =>
        /\ Len(coupon[1].schedule) = 23
        /\ InBandCount(coupon[1]) = 8
        /\ (FallbackRan /\ ret.op = "rangeAccrual") => ret.value = Real(8, 23)

C17_Witness ==
    /\ FallbackRan
    /\ ret.op = "rangeAccrual"
    /\ coupon[1].lowerTrigger = RefLiteral(150)
    /\ coupon[1].upperTrigger = RefLiteral(175)
    /\ ret.value = Real(8, 23)

\* C18: in the reference scenario with the pricer over the flat 25% surface
\* bound, rangeAccrual() of the coupon with band [1.15, 1.175] is strictly
\* greater than the fallback value 8/23 and strictly less than 1
C18_ReferencePricingAboveFallback ==
    (/\ PricerRan
     /\ ret.op = "rangeAccrual"
     /\ ret.status = "ok"
     /\ coupon[1].lowerTrigger = RefLiteral(150)
     /\ coupon[1].upperTrigger = RefLiteral(175)) =>
        /\ ret.value.den > 0
        /\ ret.value.num * 23 > 8 * ret.value.den
        /\ ret.value.num < ret.value.den

\* what the fallback of coupon c yields on the fixings of this state
FallbackNow(c) ==
    Div(FallbackLoop(fixings, coupon[c], 1, 0).inRange, Len(coupon[c].schedule))

\* two coupons without pricer over the same observation schedule, the band of
\* the first ending where the band of the second starts, every fixing of the
\* schedule inside the union of the bands; the last call computed the
\* rangeAccrual of one of them and the other holds the rangeAccrual of the
\* same fixings
AdjacentBandsCounted ==
    /\ \A c \in Coupons : coupon[c] # NoCoupon /\ pricer_[c] = NoPricer
    /\ coupon[1].schedule = coupon[2].schedule
    /\ coupon[1].upperTrigger = coupon[2].lowerTrigger
    /\ FallbackRan
    /\ \A c \in Coupons : calculated_[c] /\ rangeAccrual_[c] = FallbackNow(c)
    /\ \A i \in 1..Len(coupon[1].schedule) :
          /\ coupon[1].lowerTrigger <= fixings[coupon[1].schedule[i]]
          /\ fixings[coupon[1].schedule[i]] <= coupon[2].upperTrigger

\* the observation dates whose fixing is the boundary the two bands share
OnSharedBoundary ==
    {i \in 1..Len(coupon[1].schedule) :
        fixings[coupon[1].schedule[i]] = coupon[1].upperTrigger}

\* C19 as stated: the rangeAccrual values of adjacent bands covering every
\* fixing sum to 1
C19_AdjacentBandsSumToOne ==
    AdjacentBandsCounted =>
        rangeAccrual_[1].num + rangeAccrual_[2].num = Len(coupon[1].schedule)

\* C19, amended: every observation date is counted in one band, or in both
\* when its fixing equals the shared boundary, so the rangeAccrual values sum
\* to 1 plus the fraction of dates fixed on the shared boundary
C19_AdjacentBandsSum ==
    AdjacentBandsCounted =>
        /\ rangeAccrual_[1].den = Len(coupon[1].schedule)
        /\ rangeAccrual_[2].den = Len(coupon[1].schedule)
        /\ rangeAccrual_[1].num + rangeAccrual_[2].num =
              Len(coupon[1].schedule) + Cardinality(OnSharedBoundary)

C19_Witness ==
    /\ AdjacentBandsCounted
    /\ Len(coupon[1].schedule) = 2
    /\ Cardinality(OnSharedBoundary) = 1
    /\ rangeAccrual_[1].num + rangeAccrual_[2].num = 3

\* C20: accept(v) calls the visitor's visit for the range-accrual coupon type
\* when the visitor recognizes that type and FixedRateCoupon::accept(v)
\* otherwise, exactly one of the two, and changes neither the cached
\* rangeAccrual and diagnostics nor the calculated flag
C20_Step ==
    (ret'.op = "accept") =>
        /\ ret'.args.recognizes => ret'.args.calls = {"visit"}
        /\ ~ret'.args.recognizes => ret'.args.calls = {"FixedRateCoupon::accept"}
        /\ Cardinality(ret'.args.calls) = 1
        /\ calculated_' = calculated_
        /\ rangeAccrual_' = rangeAccrual_
        /\ additionalResults_' = additionalResults_

C20_AcceptDispatchesOnce == [][C20_Step]_vars

C20_Witness ==
    /\ ret.op = "accept"
    /\ ret.args.recognizes
    /\ ret.args.calls = {"visit"}
    /\ calculated_[ret.c]
    /\ pricer_[ret.c] # NoPricer
    /\ rangeAccrual_[ret.c] = pricerRangeAccrual_[pricer_[ret.c]]

C20_WitnessPassThrough ==
    /\ ret.op = "accept"
    /\ ~ret.args.recognizes
    /\ ret.args.calls = {"FixedRateCoupon::accept"}
    /\ calculated_[ret.c]

\* the observation dates of the coupon last calculated on which the pricer
\* recorded both standard deviations below minStd
IntrinsicDates ==
    {d \in {coupon[ret.c].schedule[i] : i \in 1..Len(coupon[ret.c].schedule)} :
        /\ additionalResults_[ret.c][<<"standardDevLow", d>>].num < minStd
        /\ additionalResults_[ret.c][<<"standardDevUpp", d>>].num < minStd}

\* C21: on an observation date where both standard deviations are below
\* minStd, each pricer records the in-range probability 1 when
\* lowerTrigger <= index < upperTrigger and 0 otherwise
C21_IntrinsicPerBoundary ==
    (PricerRan /\ ret.status = "ok") =>
        \A d \in IntrinsicDates :
            additionalResults_[ret.c][<<"inRangeProbability", d>>] =
                (IF /\ coupon[ret.c].lowerTrigger <= fixings[d]
                    /\ fixings[d] < coupon[ret.c].upperTrigger
                 THEN Real(100, 100) ELSE Real(0, 100))

\* the observation dates of the coupon last calculated
LastDates == {coupon[ret.c].schedule[i] : i \in 1..Len(coupon[ret.c].schedule)}

\* C22: on every observation date a pricer's option formula divides only by
\* standard deviations that are at least minStd
C22_FormulaOnlyAboveMinStd ==
    (PricerRan /\ ret.status = "ok") =>
        \A d \in LastDates :
            \A std \in FormulaStdDevs(family,
                                      additionalResults_[ret.c][<<"standardDevLow", d>>].num,
                                      additionalResults_[ret.c][<<"standardDevUpp", d>>].num) :
                std >= minStd

\* C23: every in-range probability a pricer without skew correction records
\* lies in [0, 1], and so does its rangeAccrual
C23_ProbabilityInUnitInterval ==
    (PricerRan /\ ret.status = "ok") =>
        /\ \A d \in LastDates :
              LET p == additionalResults_[ret.c][<<"inRangeProbability", d>>]
              IN  ~IsNaN(p) /\ 0 <= p.num /\ p.num <= p.den
        /\ ~IsNaN(ret.value) => (0 <= ret.value.num /\ ret.value.num <= ret.value.den)
        /\ ret.op = "rangeAccrual" => ~IsNaN(ret.value)

\* C24: a rangeAccrual() or amount() on a coupon leaves the cached
\* rangeAccrual, diagnostics and calculated flag of every other coupon as
\* they were, whatever pricer they share; a call that recomputes through the
\* pricer stores what initialize yields for the coupon's own band and
\* schedule, and a call on a calculated coupon returns the coupon's own
\* cached value, not what the pricer holds by then
C24_Step ==
    (ret'.op \in Calls) =>
        LET c == ret'.c IN
        /\ \A o \in Coupons \ {c} :
              /\ rangeAccrual_'[o] = rangeAccrual_[o]
              /\ additionalResults_'[o] = additionalResults_[o]
              /\ calculated_'[o] = calculated_[o]
        /\ (ret'.recomputed /\ ret'.status = "ok" /\ pricer_[c] # NoPricer) =>
              /\ rangeAccrual_'[c] = FreshInitialize(c).rangeAccrual
              /\ additionalResults_'[c] = FreshInitialize(c).results
        /\ (~ret'.recomputed) =>
              /\ rangeAccrual_'[c] = rangeAccrual_[c]
              /\ additionalResults_'[c] = additionalResults_[c]
        /\ (ret'.status = "ok" /\ ret'.op = "rangeAccrual") => ret'.value = rangeAccrual_'[c]
        /\ (ret'.status = "ok" /\ ret'.op = "amount") =>
              ret'.value = AmountValue(rangeAccrual_'[c], coupon[c])

C24_SharedPricerKeepsCouponsApart == [][C24_Step]_vars

\* both coupons are calculated on the shared pricer, the pricer holds the
\* values of the coupon calculated last, and a call on the other coupon
\* returned that coupon's own, different, cached value
C24_Witness ==
    /\ ret.op = "rangeAccrual"
    /\ ret.status = "ok"
    /\ ~ret.recomputed
    /\ \A c \in Coupons : coupon[c] # NoCoupon /\ calculated_[c] /\ pricer_[c] = 1
    /\ ret.value = rangeAccrual_[ret.c]
    /\ ret.value # pricerRangeAccrual_[1]
    /\ additionalResults_[ret.c] # pricerResults_[1]

\* 1 - (call(K - w/2) - call(K + w/2)) / w and (put(K + w/2) - put(K - w/2)) / w,
\* in percent
CallSpreadPut(S, K, w) ==
    Real(100 - (100 * (CapletRate(S, 2 * K - w \div 2) - CapletRate(S, 2 * K + w \div 2)))
                   \div (PriceUnit * w), 100)
PutSpreadPut(S, K, w) ==
    Real((100 * (FloorletRate(S, 2 * K + w \div 2) - FloorletRate(S, 2 * K - w \div 2)))
             \div (PriceUnit * w), 100)
ReplicatedPut(S, K, w) == IF K > S THEN CallSpreadPut(S, K, w) ELSE PutSpreadPut(S, K, w)

\* the digital put of a boundary on a pricer that holds a Hagan pricer
BoundaryPut(S, K, std) ==
    IF std < minStd THEN (IF S < K THEN Real(100, 100) ELSE Real(0, 100))
    ELSE ReplicatedPut(S, K, SpreadWidth)

\* C25: cmsPutOption fails with "haganPricer_ required." without a Hagan
\* pricer and with "spreadWidth > 0.0 required." for a spread width <= 0;
\* otherwise it returns the caplet spread 1 - (call(K - w/2) - call(K + w/2)) / w
\* when the strike is strictly above the fixing of the date and the floorlet
\* spread (put(K + w/2) - put(K - w/2)) / w when it is not; initialize of a
\* pricer holding a Hagan pricer values by it every boundary whose standard
\* deviation is at least minStd
C25_Replication ==
    /\ (ret.op = "cmsPutOption") =>
          LET K == ret.args.optionStrike
              w == ret.args.spreadWidth
              d == ret.args.exerciseDate
          IN  IF ~HasHagan(family, ret.args.pricer)
              THEN ret.status = "error" /\ ret.msg = "haganPricer_ required."
              ELSE IF w <= 0
              THEN ret.status = "error" /\ ret.msg = "spreadWidth > 0.0 required."
              ELSE (d \in DOMAIN fixings) =>
                     /\ ret.status = "ok"
                     /\ ret.args.side = (IF K > fixings[d] THEN "call" ELSE "put")
                     /\ (K > fixings[d]) => ret.value = CallSpreadPut(fixings[d], K, w)
                     /\ (K <= fixings[d]) => ret.value = PutSpreadPut(fixings[d], K, w)
    /\ (PricerRan /\ ret.status = "ok" /\ HasHagan(family, pricer_[ret.c])) =>
          \A d \in LastDates :
              LET res == additionalResults_[ret.c]
                  cp == coupon[ret.c]
              IN  res[<<"inRangeProbability", d>>] =
                      Minus(BoundaryPut(fixings[d], cp.upperTrigger,
                                        res[<<"standardDevUpp", d>>].num),
                            BoundaryPut(fixings[d], cp.lowerTrigger,
                                        res[<<"standardDevLow", d>>].num))

\* a put spread at the money: the strike equals the fixing
C25_Witness ==
    /\ ret.op = "cmsPutOption"
    /\ ret.status = "ok"
    /\ ret.args.exerciseDate \in DOMAIN fixings
    /\ ret.args.optionStrike = fixings[ret.args.exerciseDate]
    /\ ret.args.side = "put"
    /\ ret.value = Real(50, 100)

\* an initialize that replicated both boundaries of the date after the
\* reference date, the lower one at the money by the floorlet spread, the
\* upper one by the caplet spread
C25_WitnessInitialize ==
    /\ PricerRan
    /\ ret.status = "ok"
    /\ HasHagan(family, pricer_[ret.c])
    /\ 2 \in LastDates
    /\ fixings[2] = coupon[ret.c].lowerTrigger
    /\ additionalResults_[ret.c][<<"standardDevLow", 2>>].num >= minStd
    /\ additionalResults_[ret.c][<<"inRangeProbability", 2>>] = Real(25, 100)

\* C26: constructing the CMS pricer from a CMS coupon pricer ends in the
\* validation error "cmsCouponPricer is required." for a null argument and in
\* "Cannot down-cast cmsCouponPricer to HaganPricer." for one that is not a
\* Hagan pricer
C26_PricerArgumentValidated ==
    (ret.op = "constructPricer") =>
        /\ (ret.args.cmsCouponPricer = "null") =>
              (ret.status = "error" /\ ret.msg = "cmsCouponPricer is required.")
        /\ (ret.args.cmsCouponPricer = "other") =>
              (ret.status = "error" /\
               ret.msg = "Cannot down-cast cmsCouponPricer to HaganPricer.")
        /\ (ret.args.cmsCouponPricer = "hagan") => ret.status = "ok"

\* C27: a calculation through the count-based fallback leaves the coupon's
\* additionalResults as they were, so the diagnostics of an earlier
\* pricer-based calculation survive setPricer(null) and the recalculation;
\* they are empty as long as no pricer has run
C27_Step ==
    (ret'.op \in Calls /\ pricer_[ret'.c] = NoPricer) =>
        additionalResults_'[ret'.c] = additionalResults_[ret'.c]

C27_FallbackKeepsDiagnostics ==
    [][C27_Step /\ ((pricerResults_'[1] = NoResults) => (additionalResults_'[1] = NoResults))]_vars

\* the fallback recomputed the rangeAccrual of a coupon that still holds the
\* diagnostics of its former pricer
C27_Witness ==
    /\ FallbackRan
    /\ ret.op = "rangeAccrual"
    /\ rangeAccrual_[ret.c] = Real(InBandCount(coupon[ret.c]), Len(coupon[ret.c].schedule))
    /\ additionalResults_[ret.c] = pricerResults_[1]
    /\ <<"daysInRange", 0>> \in DOMAIN additionalResults_[ret.c]

\* C28: additionalResults() returns the stored mapping and changes nothing,
\* the calculated flag included; a coupon becomes calculated only by
\* rangeAccrual() or amount(), and its stored mapping changes only in a
\* rangeAccrual() or amount() that completed through a pricer, so what an
\* uncalculated coupon returns is the mapping of the last such calculation
C28_Step ==
    /\ (ret'.op = "additionalResults") =>
          /\ ret'.args.results = additionalResults_[ret'.c]
          /\ calculated_' = calculated_
          /\ rangeAccrual_' = rangeAccrual_
          /\ additionalResults_' = additionalResults_
          /\ pricerRangeAccrual_' = pricerRangeAccrual_
          /\ pricerResults_' = pricerResults_
    /\ \A c \in Coupons :
          /\ (calculated_'[c] /\ ~calculated_[c]) => (ret'.op \in Calls /\ ret'.c = c)
          /\ (additionalResults_'[c] # additionalResults_[c]) =>
                /\ ret'.op \in Calls
                /\ ret'.c = c
                /\ ret'.status = "ok"
                /\ ret'.recomputed
                /\ pricer_[c] # NoPricer
                /\ additionalResults_'[c] = pricerResults_'[pricer_[c]]

C28_AdditionalResultsReadsOnly == [][C28_Step]_vars

\* an uncalculated coupon bound to pricer 2 returned the diagnostics that
\* pricer 1 stored in it, pricer 2 never having run
C28_Witness ==
    /\ ret.op = "additionalResults"
    /\ ~calculated_[ret.c]
    /\ pricer_[ret.c] = 2
    /\ pricerResults_[2] = NoResults
    /\ ret.args.results = pricerResults_[1]
    /\ <<"daysInRange", 0>> \in DOMAIN ret.args.results

\* C29: each pricer's observers are exactly the coupons bound to it, and an
\* update() of a pricer makes the coupons bound to it uncalculated and leaves
\* every other coupon, one formerly bound to it included, as it was
C29_Step ==
    /\ \A p \in Pricers : observers'[p] = {c \in Coupons : pricer_'[c] = p}
    /\ (ret'.op = "pricerUpdate") =>
          \E p \in Pricers :
              \A c \in Coupons : calculated_'[c] = (calculated_[c] /\ pricer_[c] # p)

C29_ObserverOfCurrentPricer == [][C29_Step]_vars

\* a pricer's update() left calculated a coupon that pricer 1 had calculated
\* and that is since bound to pricer 2 and calculated through it
C29_Witness ==
    /\ ret.op = "pricerUpdate"
    /\ calculated_[1]
    /\ pricer_[1] = 2
    /\ pricerRangeAccrual_[1] # NullReal
    /\ observers[1] = {}

\* the observation dates of coupon c that initialize gets through before the
\* first lookup fails: none with an empty volatility handle, the dates before
\* the first one without fixing otherwise
ProcessedDates(c) ==
    IF vol = {} THEN {}
    ELSE {coupon[c].schedule[i] :
            i \in {k \in 1..Len(coupon[c].schedule) :
                      \A j \in 1..k : coupon[c].schedule[j] \in DOMAIN fixings}}

\* C30: whenever a pricer's additionalResults holds "daysInRange" it holds
\* "observationDays" too and the pricer's rangeAccrual is their quotient,
\* observationDays being the schedule size of the coupon just initialized; an
\* initialize that fails leaves the pricer with the per-date entries of the
\* dates processed before the failure and nothing else, and with the
\* rangeAccrual it held before (the null sentinel at first)
C30_Step ==
    /\ \A p \in Pricers :
          (<<"daysInRange", 0>> \in DOMAIN pricerResults_'[p]) =>
              /\ <<"observationDays", 0>> \in DOMAIN pricerResults_'[p]
              /\ pricerRangeAccrual_'[p] =
                    DivReal(pricerResults_'[p][<<"daysInRange", 0>>],
                            pricerResults_'[p][<<"observationDays", 0>>].num)
    /\ (ret'.op \in Calls /\ ret'.recomputed /\ pricer_[ret'.c] # NoPricer) =>
          LET c == ret'.c
              p == pricer_[c]
          IN  /\ (ret'.status = "ok") =>
                    pricerResults_'[p][<<"observationDays", 0>>] =
                        Real(Len(coupon[c].schedule), 1)
              /\ (ret'.status = "error") =>
                    /\ pricerRangeAccrual_'[p] = pricerRangeAccrual_[p]
                    /\ DOMAIN pricerResults_'[p] =
                          {<<m, d>> : m \in Metrics, d \in ProcessedDates(c)}

C30_PricerStateInvariant == [][C30_Step]_vars

\* an initialize for a coupon over dates 1 and 2 failed on date 2 after one
\* for another coupon had succeeded: the pricer holds the entries of date 1
\* alone and the other coupon's rangeAccrual
C30_Witness ==
    /\ PricerRan
    /\ ret.status = "error"
    /\ pricerRangeAccrual_[pricer_[ret.c]] # NullReal
    /\ DOMAIN pricerResults_[pricer_[ret.c]] = {<<m, 1>> : m \in Metrics}
    /\ \E o \in Coupons \ {ret.c} :
          /\ pricer_[o] = pricer_[ret.c]
          /\ rangeAccrual_[o] = pricerRangeAccrual_[pricer_[ret.c]]
          /\ <<"daysInRange", 0>> \in DOMAIN additionalResults_[o]

====
